---- MODULE Spec2Model ----
(***************************************************************************)
(* Model of CombineAnimations.py: the "Combine Animations" operator of a   *)
(* Blender add-on.  One run of CombineAnimationsOperator.execute is one    *)
(* step of the state machine.  Object names, custom-property keys and data *)
(* paths are sequences of one-character strings so that lower(), replace(),*)
(* startswith(), the "in" test and f-string concatenation are computed.    *)
(* Frames are counted in half frames (a value f stands for frame f/2) so   *)
(* that the int() truncation of float frames is visible.                   *)
(***************************************************************************)
EXTENDS Integers, Sequences, FiniteSets, TLC

\* ------------------------------------------------------------------------
\* Bounds of the model
\* ------------------------------------------------------------------------
MaxSel == 2        \* longest selection drawn in Init
MaxMargin == 1     \* largest frame_margin drawn in Init
MaxRuns == 2       \* runs of the operator in one behaviour

\* The objects of the scene, in the order the host lists them
ObjList == <<"o1", "o2", "o3">>
Objs == {ObjList[i] : i \in 1..Len(ObjList)}
None == "None"     \* Python's None / no object
Index(o) == CHOOSE i \in 1..Len(ObjList) : ObjList[i] = o

\* ------------------------------------------------------------------------
\* Python string primitives on character sequences
\* ------------------------------------------------------------------------
UpperChars == <<"A","B","C","D","E","F","G","H","I","J","K","L","M",
                "N","O","P","Q","R","S","T","U","V","W","X","Y","Z">>
LowerChars == <<"a","b","c","d","e","f","g","h","i","j","k","l","m",
                "n","o","p","q","r","s","t","u","v","w","x","y","z">>

\* str.lower() on one character
LowerChar(c) ==
    IF \E i \in 1..Len(UpperChars) : UpperChars[i] = c
    THEN LowerChars[CHOOSE i \in 1..Len(UpperChars) : UpperChars[i] = c]
    ELSE c

\* str.lower()
Lower(s) == [i \in 1..Len(s) |-> LowerChar(s[i])]

\* sub in s
Contains(s, sub) ==
    \E i \in 1..(Len(s) - Len(sub) + 1) : SubSeq(s, i, i + Len(sub) - 1) = sub

\* s.startswith(pre)
StartsWith(s, pre) ==
    Len(pre) <= Len(s) /\ SubSeq(s, 1, Len(pre)) = pre

\* s.replace(from, to) for single characters
Replace(s, from, to) == [i \in 1..Len(s) |-> IF s[i] = from THEN to ELSE s[i]]

\* Property paths of the host
LOCATION == <<"l","o","c","a","t","i","o","n">>
ROTATION_EULER == <<"r","o","t","a","t","i","o","n","_","e","u","l","e","r">>
SCALE == <<"s","c","a","l","e">>
ROTATION_QUATERNION == <<"r","o","t","a","t","i","o","n","_","q","u","a","t">>

\* the list ["location", "rotation_euler", "scale"]
TransformProps == {LOCATION, ROTATION_EULER, SCALE}

\* the list ["x", "y", "z"][axis]
Component(axis) == <<"x", "y", "z">>[axis + 1]

\* obj_name.replace('.', '_').replace(' ', '_')
CleanName(obj_name) == Replace(Replace(obj_name, ".", "_"), " ", "_")

\* f"{clean_obj_name}_loc_{component}" / _rot_ / _scale_
PropKey(obj_name, prop_name, axis) ==
    LET clean_obj_name == CleanName(obj_name)
        component == Component(axis)
    IN  IF prop_name = LOCATION
        THEN clean_obj_name \o <<"_","l","o","c","_">> \o <<component>>
        ELSE IF prop_name = ROTATION_EULER
        THEN clean_obj_name \o <<"_","r","o","t","_">> \o <<component>>
        ELSE clean_obj_name \o <<"_","s","c","a","l","e","_">> \o <<component>>

\* f'["{prop_key}"]'
CustomPath(prop_key) == <<"[", "\"">> \o prop_key \o <<"\"", "]">>

\* ------------------------------------------------------------------------
\* State
\* ------------------------------------------------------------------------
VARIABLES
    parent,          \* obj.parent, None for a top-level object
    name,            \* obj.name
    selected,        \* context.selected_objects
    active,          \* context.view_layer.objects.active
    mode,            \* mode of the active object
    animation_data,  \* obj.animation_data: exists, action, nla_tracks
    drivers,         \* obj.animation_data.drivers
    custom_props,    \* keys of the custom properties of each object
    scene,           \* context.scene: frame_start, frame_end, frame_current
    props,           \* operator properties, as set by the panel
    result,          \* what the last run of execute returned
    root_object,     \* the root the last run picked
    warnings,        \* channels the last run reported a WARNING for
    raised,          \* the last run ended by an exception it did not catch
    pre,             \* the scene as it was when the last run was entered
    runs             \* number of runs so far

vars == <<parent, name, selected, active, mode, animation_data, drivers,
          custom_props, scene, props, result, root_object, warnings, raised,
          pre, runs>>

\* ------------------------------------------------------------------------
\* Scene hierarchy
\* ------------------------------------------------------------------------
\* obj.children, in the host's object order
Children(obj) == SelectSeq(ObjList, LAMBDA c : parent[c] = obj)

RECURSIVE SumDescendants(_, _)
RECURSIVE count_descendants(_)
\* for child in obj.children: count += self.count_descendants(child)
SumDescendants(children, i) ==
    IF i > Len(children) THEN 0
    ELSE count_descendants(children[i]) + SumDescendants(children, i + 1)

\* count_descendants: len(obj.children) plus the count of every child
count_descendants(obj) ==
    Len(Children(obj)) + SumDescendants(Children(obj), 1)

RECURSIVE ExtendHierarchy(_, _)
RECURSIVE get_hierarchy_objects(_)
\* for child in root_obj.children: objects.extend(get_hierarchy_objects(child))
ExtendHierarchy(children, i) ==
    IF i > Len(children) THEN <<>>
    ELSE get_hierarchy_objects(children[i]) \o ExtendHierarchy(children, i + 1)

\* get_hierarchy_objects without the recursion: the root and its children
get_hierarchy_children_only(root_obj) == <<root_obj>> \o Children(root_obj)

\* get_hierarchy_objects: the root, then the hierarchy of each child
get_hierarchy_objects(root_obj) ==
    <<root_obj>> \o ExtendHierarchy(Children(root_obj), 1)

\* ------------------------------------------------------------------------
\* Selection resolver
\* ------------------------------------------------------------------------
\* "root" in n.lower() or n.lower().startswith(("player", "character", "rig"))
IsRootName(n) ==
    \/ Contains(Lower(n), <<"r","o","o","t">>)
    \/ StartsWith(Lower(n), <<"p","l","a","y","e","r">>)
    \/ StartsWith(Lower(n), <<"c","h","a","r","a","c","t","e","r">>)
    \/ StartsWith(Lower(n), <<"r","i","g">>)

\* "visual" in n.lower()
IsVisualName(n) == Contains(Lower(n), <<"v","i","s","u","a","l">>)

RECURSIVE MostDescendants(_, _, _, _)
\* the loop of find_root_object that keeps the object with most descendants
MostDescendants(objects, i, max_children, root_obj) ==
    IF i > Len(objects) THEN root_obj
    ELSE LET descendants == count_descendants(objects[i])
         IN  IF descendants > max_children
             THEN MostDescendants(objects, i + 1, descendants, objects[i])
             ELSE MostDescendants(objects, i + 1, max_children, root_obj)

\* find_root_object
find_root_object(objects) ==
    LET named == SelectSeq(objects, LAMBDA o : IsRootName(name[o]))
        visual == SelectSeq(objects, LAMBDA o : IsVisualName(name[o]))
    IN  IF named /= <<>> THEN named[1]
        ELSE IF visual /= <<>> THEN visual[1]
        ELSE MostDescendants(objects, 1, -1, None)

\* ------------------------------------------------------------------------
\* Animation range
\* ------------------------------------------------------------------------
Inf == 1000000     \* float('inf'), in half frames
Min(a, b) == IF a < b THEN a ELSE b
Max(a, b) == IF a > b THEN a ELSE b

\* obj.animation_data and obj.animation_data.action
HasAction(ad) == ad.exists /\ ad.action.id /= <<"None", 0>>

RECURSIVE RangeOfCurves(_, _, _)
\* for fcurve in action.fcurves: first and last keyframe widen the range
RangeOfCurves(fcurves, i, r) ==
    IF i > Len(fcurves) THEN r
    ELSE LET kp == fcurves[i].keyframe_points
         IN  IF Len(kp) > 0
             THEN RangeOfCurves(fcurves, i + 1,
                      <<Min(r[1], kp[1][1]), Max(r[2], kp[Len(kp)][1])>>)
             ELSE RangeOfCurves(fcurves, i + 1, r)

RECURSIVE RangeOfObjects(_, _, _, _)
RangeOfObjects(ad, objects, i, r) ==
    IF i > Len(objects) THEN r
    ELSE IF HasAction(ad[objects[i]])
         THEN RangeOfObjects(ad, objects, i + 1,
                  RangeOfCurves(ad[objects[i]].action.fcurves, 1, r))
         ELSE RangeOfObjects(ad, objects, i + 1, r)

\* find_animation_range: <<min_frame, max_frame>> in half frames
find_animation_range(ad, objects) == RangeOfObjects(ad, objects, 1, <<Inf, -Inf>>)

\* int(x) of a float counted in half frames: truncation towards zero
IntOf(h) == IF h >= 0 THEN h \div 2 ELSE -((-h) \div 2)

\* the requested range with the margin left off max_frame
RequestedRangeMarginAtStartOnly(sc, r, frame_margin) ==
    IF r[1] = Inf \/ r[2] = -Inf
    THEN <<2 * sc.frame_start, 2 * sc.frame_end>>
    ELSE <<Max(2, r[1] - 2 * frame_margin), r[2]>>

\* execute, the frame range it asks for: <<min_frame, max_frame>> in half frames
RequestedRange(sc, r, frame_margin) ==
    IF r[1] = Inf \/ r[2] = -Inf
    THEN <<2 * sc.frame_start, 2 * sc.frame_end>>
    ELSE <<Max(2, r[1] - 2 * frame_margin), r[2] + 2 * frame_margin>>

\* context.scene.frame_start = v: the host clamps v to its frame limits and
\* moves frame_end up to it when it lies beyond
SetFrameStart(sc, v) ==
    LET c == Max(0, Min(v, 1048574))
    IN  [sc EXCEPT !.frame_start = c,
                   !.frame_end = IF c > sc.frame_end THEN c ELSE sc.frame_end]

\* context.scene.frame_end = v: the host clamps v and moves frame_start down
SetFrameEnd(sc, v) ==
    LET c == Max(0, Min(v, 1048574))
    IN  [sc EXCEPT !.frame_end = c,
                   !.frame_start = IF sc.frame_start > c THEN c ELSE sc.frame_start]

\* execute: scene.frame_start = int(min_frame); scene.frame_end = int(max_frame)
SetSceneRange(sc, rq) == SetFrameEnd(SetFrameStart(sc, IntOf(rq[1])), IntOf(rq[2]))

\* ------------------------------------------------------------------------
\* Collecting the keyframe data
\* ------------------------------------------------------------------------
RECURSIVE PropsInOrder(_, _, _)
\* the keys of obj_data, in the order they are first inserted
PropsInOrder(fcurves, i, seen) ==
    IF i > Len(fcurves) THEN seen
    ELSE IF \E j \in 1..Len(seen) : seen[j] = fcurves[i].data_path
         THEN PropsInOrder(fcurves, i + 1, seen)
         ELSE PropsInOrder(fcurves, i + 1, Append(seen, fcurves[i].data_path))

RECURSIVE ChannelsOf(_, _, _)
\* obj_data flattened as the nested loops over props and axes visit it
ChannelsOf(fcurves, paths, i) ==
    IF i > Len(paths) THEN <<>>
    ELSE SelectSeq(fcurves, LAMBDA fc : fc.data_path = paths[i])
             \o ChannelsOf(fcurves, paths, i + 1)

RECURSIVE CollectAnimationData(_, _, _)
\* animation_data of create_standalone_action: one entry per animated object
\* whose action has curves, each channel tagged with the object's name
CollectAnimationData(ad, animated_objects, i) ==
    IF i > Len(animated_objects) THEN <<>>
    ELSE LET obj == animated_objects[i]
             fcurves == ad[obj].action.fcurves
             chans == ChannelsOf(fcurves, PropsInOrder(fcurves, 1, <<>>), 1)
             items == [k \in 1..Len(chans) |->
                          [obj_name |-> name[obj],
                           prop_name |-> chans[k].data_path,
                           axis |-> chans[k].array_index,
                           keyframes |-> chans[k].keyframe_points]]
         IN  (IF HasAction(ad[obj]) THEN items ELSE <<>>)
                 \o CollectAnimationData(ad, animated_objects, i + 1)

\* ------------------------------------------------------------------------
\* Host calls on curves and drivers
\* ------------------------------------------------------------------------
NoAction == [id |-> <<"None", 0>>, fcurves |-> <<>>]
NoAnimData == [exists |-> FALSE, action |-> NoAction, nla_tracks |-> 0]

\* an F-curve of the action already has this data path and index
HasCurve(fcurves, data_path, index) ==
    \E i \in 1..Len(fcurves) :
        fcurves[i].data_path = data_path /\ fcurves[i].array_index = index

\* fc.keyframe_points.insert(frame=frame, value=value): the host keeps the
\* points ordered by frame and replaces the point of an occupied frame
KeyInsert(kp, frame, value) ==
    IF \E i \in 1..Len(kp) : kp[i][1] = frame
    THEN [i \in 1..Len(kp) |-> IF kp[i][1] = frame THEN <<frame, value>> ELSE kp[i]]
    ELSE SelectSeq(kp, LAMBDA k : k[1] < frame) \o <<<<frame, value>>>>
             \o SelectSeq(kp, LAMBDA k : k[1] > frame)

RECURSIVE InsertAll(_, _, _)
\* for frame, value in keyframes: fc.keyframe_points.insert(...)
InsertAll(kp, keyframes, i) ==
    IF i > Len(keyframes) THEN kp
    ELSE InsertAll(KeyInsert(kp, keyframes[i][1], keyframes[i][2]), keyframes, i + 1)

\* fcurves.new without the keyframe loop
NewCurveWithoutKeys(fcurves, data_path, index, keyframes) ==
    Append(fcurves, [data_path |-> data_path, array_index |-> index,
                     keyframe_points |-> <<>>])

\* master_action.fcurves.new(data_path, index) followed by the keyframe loop
NewCurve(fcurves, data_path, index, keyframes) ==
    Append(fcurves, [data_path |-> data_path, array_index |-> index,
                     keyframe_points |-> InsertAll(<<>>, keyframes, 1)])

\* the second pass without its call of driver_remove
DriverRemoveNothing(ds, prop_name, axis) == ds

\* obj.driver_remove(prop_name, axis)
DriverRemove(ds, prop_name, axis) ==
    {d \in ds : ~(d.data_path = prop_name /\ d.array_index = axis)}

\* obj.driver_add(prop_name, axis).driver, then variables.new() with its
\* target and the expression: the host returns the channel's driver when it
\* has one already, and the new variable is added to its variables
DriverAdd(ds, prop_name, axis, target, data_path) ==
    LET var == [name |-> "value", type |-> "SINGLE_PROP",
                id |-> target, data_path |-> data_path]
        old == {d \in ds : d.data_path = prop_name /\ d.array_index = axis}
        vs  == IF old = {} THEN <<>> ELSE (CHOOSE d \in old : TRUE).variables
    IN  (ds \ old) \cup {[data_path |-> prop_name, array_index |-> axis,
                          variables |-> Append(vs, var),
                          expression |-> "value"]}

\* ------------------------------------------------------------------------
\* Clip merger
\* ------------------------------------------------------------------------
\* First pass, one channel: a curve on the root's own channel, or a custom
\* property of the root and a curve on it.  fcurves.new raises when the
\* action has a curve of that data path and index; nothing catches it.
FirstPassStep(st, it, root_name) ==
    IF it.obj_name = root_name /\ it.prop_name \in TransformProps
    THEN IF HasCurve(st.fcurves, it.prop_name, it.axis)
         THEN [st EXCEPT !.raised = TRUE]
         ELSE [st EXCEPT !.fcurves = NewCurve(@, it.prop_name, it.axis, it.keyframes)]
    ELSE IF it.prop_name \in TransformProps
    THEN LET prop_key == PropKey(it.obj_name, it.prop_name, it.axis)
             st1 == IF prop_key \notin st.cprops
                    THEN [st EXCEPT !.cprops = @ \cup {prop_key},
                                    !.created = @ \cup {prop_key}]
                    ELSE st
         IN  IF HasCurve(st1.fcurves, CustomPath(prop_key), 0)
             THEN [st1 EXCEPT !.raised = TRUE]
             ELSE [st1 EXCEPT !.fcurves =
                       NewCurve(@, CustomPath(prop_key), 0, it.keyframes)]
    ELSE st

RECURSIVE FirstPass(_, _, _, _)
\* "First pass: Create all the F-curves in the action"
FirstPass(items, i, st, root_name) ==
    IF i > Len(items) \/ st.raised THEN st
    ELSE FirstPass(items, i + 1, FirstPassStep(st, items[i], root_name), root_name)

\* bpy.data.objects.get(obj_name)
ObjectByName(obj_name) ==
    IF \E o \in Objs : name[o] = obj_name
    THEN CHOOSE o \in Objs : name[o] = obj_name
    ELSE None

\* Second pass, one channel: the driver on the object's channel.  failing is
\* the object on which driver_add raises; the except clause reports a warning.
SecondPassStep(st, it, root, failing) ==
    LET obj == ObjectByName(it.obj_name)
    IN  IF it.obj_name = name[root] \/ obj = None
             \/ it.prop_name \notin TransformProps
        THEN st
        ELSE LET prop_key == PropKey(it.obj_name, it.prop_name, it.axis)
                 removed == DriverRemove(st.drivers[obj], it.prop_name, it.axis)
             IN  IF obj = failing
                 THEN [st EXCEPT !.drivers[obj] = removed,
                                 !.warnings = @ \cup {<<obj, it.prop_name, it.axis>>}]
                 ELSE [st EXCEPT !.drivers[obj] =
                           DriverAdd(removed, it.prop_name, it.axis,
                                     root, CustomPath(prop_key))]

RECURSIVE SecondPass(_, _, _, _, _)
\* "Second pass: Create drivers on all objects"
SecondPass(items, i, st, root, failing) ==
    IF i > Len(items) THEN st
    ELSE SecondPass(items, i + 1, SecondPassStep(st, items[i], root, failing),
                    root, failing)

\* the removal of the original actions without the test of the option
RemoveOriginalsAlways(ad, animated_objects, root, keep_original_actions) ==
    [o \in Objs |->
        IF (\E i \in 1..Len(animated_objects) : animated_objects[i] = o)
           /\ o /= root /\ HasAction(ad[o])
        THEN [ad[o] EXCEPT !.nla_tracks = 0, !.action = NoAction]
        ELSE ad[o]]

\* "Remove original actions if not keeping them"
RemoveOriginals(ad, animated_objects, root, keep_original_actions) ==
    IF keep_original_actions THEN ad
    ELSE [o \in Objs |->
            IF (\E i \in 1..Len(animated_objects) : animated_objects[i] = o)
               /\ o /= root /\ HasAction(ad[o])
            THEN [ad[o] EXCEPT !.nla_tracks = 0, !.action = NoAction]
            ELSE ad[o]]

\* ------------------------------------------------------------------------
\* Scenes the operator is run on
\* ------------------------------------------------------------------------
Curve(data_path, index, kp) ==
    [data_path |-> data_path, array_index |-> index, keyframe_points |-> kp]

\* An action with keyed transform curves, a curve on another property and a
\* curve without keyframes; frames (in half frames) and values differ per object
KeyedAction(o) ==
    LET k == Index(o)
    IN  [id |-> <<"Action", k>>,
         fcurves |-> <<Curve(LOCATION, 0, <<<<3 * k - 3, 10 * k + 1>>>>),
                       Curve(ROTATION_EULER, 2, <<<<3 * k - 2, 10 * k + 2>>,
                                                  <<5 * k + 1 + (k \div 3), 10 * k + 3>>>>),
                       Curve(ROTATION_QUATERNION, 3, <<<<3 * k - 1, 10 * k + 4>>>>),
                       Curve(LOCATION, 2, <<<<3 * k, 10 * k + 5>>>>),
                       Curve(SCALE, 1, <<>>)>>]

\* An action whose only curve has no keyframes
UnkeyedAction(o) ==
    [id |-> <<"Unkeyed", Index(o)>>, fcurves |-> <<Curve(SCALE, 1, <<>>)>>]

AnimChoices(o) ==
    {NoAnimData,
     [exists |-> TRUE, action |-> KeyedAction(o), nla_tracks |-> 1],
     [exists |-> TRUE, action |-> UnkeyedAction(o), nla_tracks |-> 0]}

\* Object names: unique, as the host keeps them
Names ==
    {[o \in Objs |-> <<<<"R","i","g">>, <<"a",".","b">>, <<"a","_","b">>>>[Index(o)]],
     [o \in Objs |-> <<<<"a"," ","b">>, <<"m","y","R","o","o","t">>,
                       <<"V","i","s","u","a","l">>>>[Index(o)]]}

\* Parent links: a forest, each parent earlier in the host's object order
Forests ==
    {p \in [Objs -> Objs \cup {None}] :
        \A o \in Objs : p[o] /= None => Index(p[o]) < Index(o)}

\* Selections: sequences of distinct objects
Selections ==
    {sq \in UNION {[1..n -> Objs] : n \in 0..MaxSel} :
        \A i, j \in 1..Len(sq) : i /= j => sq[i] /= sq[j]}

Snapshot ==
    [animation_data |-> animation_data, drivers |-> drivers,
     custom_props |-> custom_props, scene |-> scene, selected |-> selected,
     active |-> active, mode |-> mode, result |-> result]

Init ==
    /\ parent \in Forests
    /\ name \in Names
    /\ selected \in Selections
    /\ \/ active = None /\ mode = "OBJECT"
       \/ selected /= <<>> /\ active = selected[Len(selected)] /\ mode = "EDIT"
    /\ animation_data \in [Objs -> UNION {AnimChoices(o) : o \in Objs}]
    /\ \A o \in Objs : animation_data[o] \in AnimChoices(o)
    /\ drivers = [o \in Objs |-> {}]
    /\ custom_props = [o \in Objs |-> {}]
    /\ scene = [frame_start |-> 1, frame_end |-> 250, frame_current |-> 1]
    /\ props \in [keep_original_actions : BOOLEAN, add_root_track : BOOLEAN,
                  frame_margin : {0, MaxMargin}]
    /\ result = "NONE"
    /\ root_object = None
    /\ warnings = {}
    /\ raised = FALSE
    /\ pre = Snapshot
    /\ runs = 0

\* ------------------------------------------------------------------------
\* The operator
\* ------------------------------------------------------------------------
\* bpy.context.mode: the context's name for the mode of the active object
ContextMode(m) == IF m = "EDIT" THEN "EDIT_MESH" ELSE m

\* bpy.ops.object.mode_set(mode=m): the host rejects a name that is not an
\* object mode; both callers swallow the exception
ModeSet(current, m) == IF m \in {"OBJECT", "EDIT"} THEN m ELSE current

\* animated_objects without the test for an action
AnimatedObjectsUnfiltered(ad, all_objects) == all_objects

\* animated_objects of execute
AnimatedObjects(ad, all_objects) == SelectSeq(all_objects, LAMBDA o : HasAction(ad[o]))

\* A return of execute before anything is merged
Cancel(active1, mode1, root) ==
    /\ result' = "CANCELLED"
    /\ root_object' = root
    /\ active' = active1
    /\ mode' = mode1
    /\ warnings' = {}
    /\ raised' = FALSE
    /\ UNCHANGED <<animation_data, drivers, custom_props, scene>>

\* The objects on which driver_add may raise in a run: one of the objects the
\* second pass visits, or none
HostRefusals(root, animated_objects) ==
    {None} \cup ({animated_objects[i] : i \in 1..Len(animated_objects)} \ {root})

\* create_standalone_action and the restoring tail of execute.  The object on
\* which the host refuses a new driver, if any, is an input of the run.
\* (\E x \in {e} binds a local of the code to its value.)
Merge(active1, mode1, root, animated_objects) ==
    \E rq \in {RequestedRange(scene,
                   find_animation_range(animation_data, animated_objects),
                   props.frame_margin)} :
    \E items \in {CollectAnimationData(animation_data, animated_objects, 1)} :
    \E fp \in {FirstPass(items, 1,
                   [fcurves |-> <<>>, cprops |-> custom_props[root],
                    created |-> {}, raised |-> FALSE], name[root])} :
    LET master_action == [id |-> <<"Combined_Animation", runs + 1>>,
                          fcurves |-> fp.fcurves]
        ad1 == [animation_data EXCEPT ![root] =
                   [@ EXCEPT !.exists = TRUE, !.action = master_action]]
    IN  /\ root_object' = root
        /\ scene' = SetSceneRange(scene, rq)
        /\ custom_props' = [custom_props EXCEPT ![root] = fp.cprops]
        /\ raised' = fp.raised
        /\ IF fp.raised
           THEN /\ result' = "EXCEPTION"
                /\ animation_data' = ad1
                /\ active' = active1
                /\ mode' = mode1
                /\ warnings' = {}
                /\ UNCHANGED drivers
           ELSE /\ result' = "FINISHED"
                /\ animation_data' = RemoveOriginals(ad1, animated_objects, root,
                                                     props.keep_original_actions)
                /\ \E failing \in HostRefusals(root, animated_objects) :
                   \E sp \in {SecondPass(items, 1,
                                  [drivers |-> drivers, warnings |-> {}],
                                  root, failing)} :
                      drivers' = sp.drivers /\ warnings' = sp.warnings
                /\ active' = IF active /= None THEN active ELSE active1
                /\ mode' = ModeSet(mode1, ContextMode(mode))

\* all_objects of execute
HierarchyOf(root) == IF root = None THEN <<>> ELSE get_hierarchy_objects(root)

\* CombineAnimationsOperator.execute
Execute ==
    /\ runs < MaxRuns
    /\ runs' = runs + 1
    /\ pre' = Snapshot
    /\ UNCHANGED <<parent, name, selected, props>>
    /\ IF selected = <<>>
       THEN Cancel(active, mode, None)
       ELSE \E base_objects \in {selected} :
            \E root \in {find_root_object(base_objects)} :
            \E animated_objects \in
                   {AnimatedObjects(animation_data, HierarchyOf(root))} :
            LET active1 == IF active = None THEN base_objects[1] ELSE active
                mode1 == IF mode /= "OBJECT" THEN ModeSet(mode, "OBJECT") ELSE mode
            IN  IF root = None \/ animated_objects = <<>>
                THEN Cancel(active1, mode1, root)
                ELSE Merge(active1, mode1, root, animated_objects)

Next == Execute

Spec == Init /\ [][Next]_vars

\* ------------------------------------------------------------------------
\* Vocabulary of the properties
\* ------------------------------------------------------------------------
RECURSIVE IsAncestor(_, _)
\* a is a proper ancestor of o along the parent links
IsAncestor(a, o) ==
    parent[o] /= None /\ (parent[o] = a \/ IsAncestor(a, parent[o]))

Subtree(r) == {r} \cup {o \in Objs : IsAncestor(r, o)}
Range(sq) == {sq[i] : i \in 1..Len(sq)}
Ran == runs > 0
Finished == Ran /\ result = "FINISHED"
\* the objects of the root's hierarchy that had an action when the run began
PreAnimated == {o \in Subtree(root_object) : HasAction(pre.animation_data[o])}
PreCurves(o) == Range(pre.animation_data[o].action.fcurves)
\* the action assigned to the root
RootAction == animation_data[root_object].action
\* the curve of the combined action that a curve c of object o is copied to
CopiedCurve(o, c) ==
    IF o = root_object
    THEN c
    ELSE Curve(CustomPath(PropKey(name[o], c.data_path, c.array_index)), 0,
               c.keyframe_points)

\* ------------------------------------------------------------------------
\* C9: find_root_object
\* ------------------------------------------------------------------------
FirstWhere(sq, P(_)) == sq[CHOOSE i \in 1..Len(sq) :
                               P(sq[i]) /\ \A j \in 1..(i - 1) : ~P(sq[j])]
NumDescendants(o) == Cardinality({d \in Objs : IsAncestor(o, d)})

\* The priority order of C9 alone: first root-like name, else first "visual"
\* name, else most descendants with the earliest winning a tie.
RootChosenByPriority ==
    (Ran /\ selected /= <<>>) =>
        LET rootish(o) == IsRootName(name[o])
            visual(o) == IsVisualName(name[o])
            most(o) == \A s \in Range(selected) : NumDescendants(s) <= NumDescendants(o)
        IN  /\ root_object \in Range(selected)
            /\ root_object =
                 IF \E s \in Range(selected) : rootish(s) THEN FirstWhere(selected, rootish)
                 ELSE IF \E s \in Range(selected) : visual(s) THEN FirstWhere(selected, visual)
                 ELSE FirstWhere(selected, most)

\* C9: find_root_object on a non-empty selection returns the selected object
\* chosen by that priority, and no other selected object is an ancestor of
\* the object it returns (it is the topmost parent).
C9_RootIsTopmostParent ==
    (Ran /\ selected /= <<>>) =>
        /\ RootChosenByPriority
        /\ \A s \in Range(selected) : ~IsAncestor(s, root_object)

\* ------------------------------------------------------------------------
\* C10: get_hierarchy_objects and the reach of the merge
\* ------------------------------------------------------------------------
\* C10: the hierarchy list is the root followed by each of its descendants
\* once and nothing else; an object outside it keeps its drivers, animation
\* data and custom properties, and every curve of the combined action is the
\* copy of a curve of an object inside it.
C10_MergeStaysInHierarchy ==
    (Ran /\ root_object /= None) =>
        LET h == get_hierarchy_objects(root_object)
        IN  /\ h[1] = root_object
            /\ \A i, j \in 1..Len(h) : i /= j => h[i] /= h[j]
            /\ Range(h) = Subtree(root_object)
            /\ \A o \in Objs \ Subtree(root_object) :
                  /\ drivers[o] = pre.drivers[o]
                  /\ animation_data[o] = pre.animation_data[o]
                  /\ custom_props[o] = pre.custom_props[o]
            /\ result /= "CANCELLED" =>
                  \A fc \in Range(RootAction.fcurves) :
                      \E o \in PreAnimated : \E c \in PreCurves(o) :
                          c.data_path \in TransformProps /\ fc = CopiedCurve(o, c)

\* a finished run whose selection holds an animated object outside the
\* hierarchy of a root that has descendants
C10_Witness ==
    /\ Finished
    /\ Cardinality(Subtree(root_object)) >= 2
    /\ \E s \in Range(selected) :
          s \notin Subtree(root_object) /\ pre.animation_data[s].action.fcurves /= <<>>
             /\ Len(pre.animation_data[s].action.fcurves) > 1

\* ------------------------------------------------------------------------
\* C1: the combined action carries the keyframes
\* ------------------------------------------------------------------------
\* C1 as claimed: after a finished run every curve of every animated object
\* of the hierarchy has a curve with the same keyframes in the combined
\* action, on the same channel for the root and on a custom property of the
\* root for any other object.
C1_EveryCurveCopied ==
    Finished =>
        \A o \in PreAnimated : \A c \in PreCurves(o) :
            \E fc \in Range(RootAction.fcurves) :
                /\ fc.keyframe_points = c.keyframe_points
                /\ IF o = root_object
                   THEN fc.data_path = c.data_path /\ fc.array_index = c.array_index
                   ELSE \E k \in custom_props[root_object] :
                            fc.data_path = CustomPath(k)

\* C1 amended: the same for every curve whose property path is location,
\* rotation_euler or scale; the custom property of a non-root curve is the
\* one named <clean object name>_<loc|rot|scale>_<x|y|z>, and it exists.
C1_TransformCurvesCopied ==
    Finished =>
        \A o \in PreAnimated : \A c \in PreCurves(o) :
            c.data_path \in TransformProps =>
                /\ \E fc \in Range(RootAction.fcurves) : fc = CopiedCurve(o, c)
                /\ o /= root_object =>
                      PropKey(name[o], c.data_path, c.array_index)
                          \in custom_props[root_object]

\* a finished run over an animated root and an animated descendant, each with
\* a transform curve of two keyframes
C1_Witness ==
    /\ Finished
    /\ root_object \in PreAnimated
    /\ \E o \in PreAnimated : o /= root_object
    /\ \A o \in PreAnimated : \E c \in PreCurves(o) :
          c.data_path \in TransformProps /\ Len(c.keyframe_points) >= 2

\* ------------------------------------------------------------------------
\* C2: drivers
\* ------------------------------------------------------------------------
\* C2: after a finished run without a driver warning, each transform channel
\* of each non-root animated object has exactly one driver; it has a single
\* variable, which targets the root at the data path of a custom property
\* that the root has and that the combined action has a curve for; the
\* root's own drivers are as they were.
C2_DriversTargetRootFields ==
    (Finished /\ warnings = {}) =>
        /\ \A o \in PreAnimated \ {root_object} : \A c \in PreCurves(o) :
              c.data_path \in TransformProps =>
                 LET ds == {d \in drivers[o] : d.data_path = c.data_path
                                               /\ d.array_index = c.array_index}
                 IN  /\ Cardinality(ds) = 1
                     /\ \A d \in ds :
                           /\ Len(d.variables) = 1
                           /\ d.variables[1].id = root_object
                           /\ \E k \in custom_props[root_object] :
                                 /\ d.variables[1].data_path = CustomPath(k)
                                 /\ HasCurve(RootAction.fcurves, CustomPath(k), 0)
        /\ drivers[root_object] = pre.drivers[root_object]

\* a finished run that replaced drivers an earlier run had left on a
\* non-root object
C2_Witness ==
    /\ Finished
    /\ warnings = {}
    /\ \E o \in PreAnimated \ {root_object} :
          /\ pre.drivers[o] /= {}
          /\ \E c \in PreCurves(o) : c.data_path \in TransformProps

\* ------------------------------------------------------------------------
\* C3: names of the custom properties
\* ------------------------------------------------------------------------
\* C3: two distinct channels mapped in one run get distinct property names.
C3_FieldNamesUnique ==
    (Ran /\ root_object /= None /\ result /= "CANCELLED") =>
        \A o1, o2 \in PreAnimated \ {root_object} :
        \A c1 \in PreCurves(o1) : \A c2 \in PreCurves(o2) :
            (/\ c1.data_path \in TransformProps
             /\ c2.data_path \in TransformProps
             /\ <<name[o1], c1.data_path, c1.array_index>>
                    /= <<name[o2], c2.data_path, c2.array_index>>)
            => PropKey(name[o1], c1.data_path, c1.array_index)
                   /= PropKey(name[o2], c2.data_path, c2.array_index)

C5_HostFailuresAreCaught ==
    (Ran /\ (raised \/ warnings /= {})) => (~raised /\ result = "FINISHED")

\* ------------------------------------------------------------------------
\* C6: keep_original_actions
\* ------------------------------------------------------------------------
\* the action the last run created
IsCombinedAction(a) == a.id = <<"Combined_Animation", runs>>

\* C6 as claimed: with keep_original_actions every animated object of the
\* hierarchy, the root included, still has the action it had; without it
\* every non-root animated object has no action and no NLA track, and the
\* root has the combined action.
C6_OriginalActionsKept ==
    Finished =>
        IF props.keep_original_actions
        THEN \A o \in PreAnimated :
                 animation_data[o].action = pre.animation_data[o].action
        ELSE /\ \A o \in PreAnimated \ {root_object} :
                   ~HasAction(animation_data[o]) /\ animation_data[o].nla_tracks = 0
             /\ IsCombinedAction(RootAction)

\* C6 amended: with keep_original_actions every non-root animated object of
\* the hierarchy keeps its action and its NLA tracks; without it every such
\* object ends with no action and no NLA track; either way the root ends with
\* the combined action in place of any action it had.
C6_NonRootActionsKept ==
    Finished =>
        /\ IsCombinedAction(RootAction)
        /\ \A o \in PreAnimated \ {root_object} :
              IF props.keep_original_actions
              THEN animation_data[o] = pre.animation_data[o]
              ELSE ~HasAction(animation_data[o]) /\ animation_data[o].nla_tracks = 0

\* a finished run that keeps the originals, over an animated root and an
\* animated descendant that has an NLA track
C6_Witness ==
    /\ Finished
    /\ props.keep_original_actions
    /\ root_object \in PreAnimated
    /\ \E o \in PreAnimated \ {root_object} : pre.animation_data[o].nla_tracks > 0

\* ------------------------------------------------------------------------
\* C7: scene frame range (frames of the model are half frames)
\* ------------------------------------------------------------------------
PreFrames ==
    {kf[1] : kf \in UNION {Range(c.keyframe_points) :
                 c \in UNION {PreCurves(o) : o \in PreAnimated}}}
SmallestFrame == CHOOSE f \in PreFrames : \A g \in PreFrames : f <= g
LargestFrame == CHOOSE f \in PreFrames : \A g \in PreFrames : g <= f

C8_RootTrackFollowsOption ==
    Finished =>
        IF props.add_root_track
        THEN /\ \E fc \in Range(RootAction.fcurves) : fc.data_path = LOCATION
             /\ \E fc \in Range(RootAction.fcurves) : fc.data_path = ROTATION_EULER
        ELSE \A fc \in Range(RootAction.fcurves) :
                 fc.data_path \in TransformProps =>
                     root_object \in PreAnimated /\ fc \in PreCurves(root_object)

\* ------------------------------------------------------------------------
\* C11: running the operator twice
\* ------------------------------------------------------------------------
\* two runs in a row, on the same selection and options, both FINISHED
RanTwice == runs >= 2 /\ result = "FINISHED" /\ pre.result = "FINISHED"

\* the combined action has the curves it had after the run before
SameCombinedCurves ==
    Range(RootAction.fcurves) = Range(pre.animation_data[root_object].action.fcurves)

\* each driver the run before left is still there, and each of its variables
\* targets the root at a data path the root's current action has a curve for
DriversStillFed ==
    \A o \in Objs : \A d \in pre.drivers[o] :
        /\ \E e \in drivers[o] :
              e.data_path = d.data_path /\ e.array_index = d.array_index
        /\ \A i \in 1..Len(d.variables) :
              /\ d.variables[i].id = root_object
              /\ HasCurve(RootAction.fcurves, d.variables[i].data_path, 0)

\* C11: after the second of two FINISHED runs in a row the combined action
\* has the same curves with the same keyframes as after the first, and every
\* driver of the first run still targets a root field that the root's
\* current action keys, whether keep_original_actions is true or false.
C11_SecondRunIdempotent ==
    RanTwice => (SameCombinedCurves /\ DriversStillFed)

\* The part of C11 that holds: with keep_original_actions the curves of the
\* combined action are the same after the second run, and so are the drivers
\* when the host refuses none.
SecondRunIdempotentWhenKept ==
    (RanTwice /\ props.keep_original_actions) =>
        /\ SameCombinedCurves
        /\ warnings = {} => DriversStillFed

\* ------------------------------------------------------------------------
\* C12: the context after a run
\* ------------------------------------------------------------------------
\* C12: when execute returns FINISHED or CANCELLED the selected objects, the
\* active object, the mode and the current frame are those of its entry.
C12_ContextRestored ==
    (Ran /\ result \in {"FINISHED", "CANCELLED"}) =>
        /\ Range(selected) = Range(pre.selected)
        /\ active = pre.active
        /\ mode = pre.mode
        /\ scene.frame_current = pre.scene.frame_current

\* The part of C12 that holds on every return: the selection and the current
\* frame are those of the entry.
SelectionAndFrameRestored ==
    Ran => /\ selected = pre.selected
           /\ scene.frame_current = pre.scene.frame_current

====
